---- MODULE Spec2Model ----
(***************************************************************************)
(* expenseLog: the expense store (SqliteExpenseRepository over the table   *)
(* created by initialize_schema) and the domain values it persists.        *)
(*                                                                         *)
(* Amounts are f64 in the program; the model uses integers, which stand    *)
(* for finite, exactly representable amounts (NaN, infinities and rounding *)
(* are outside the model).  An Option<T> is the empty set (None) or a      *)
(* singleton (Some).  Text is a sequence of one-character strings, so that *)
(* SQLite's byte-wise comparison of TEXT values can be computed.           *)
(***************************************************************************)
EXTENDS Integers, Sequences, FiniteSets, TLC

(***************************************************************************)
(* Bounds of the model.                                                    *)
(***************************************************************************)
\* Largest rowid the model lets an insert assign; the table never holds more
\* rows than this.
MaxId == 2

(***************************************************************************)
(* Option<T> and Result<T, E>.                                             *)
(***************************************************************************)
None == {}
Some(x) == {x}
IsSome(o) == o # {}
Unwrap(o) == CHOOSE x \in o : TRUE

Ok(v) == [ok |-> TRUE, value |-> v]
Err(e) == [ok |-> FALSE, error |-> e]

(***************************************************************************)
(* chrono::NaiveDate: a calendar date, ordered chronologically.            *)
(***************************************************************************)
Date(y, m, d) == [year |-> y, month |-> m, day |-> d]

DateLess(a, b) ==
    \/ a.year < b.year
    \/ a.year = b.year /\ a.month < b.month
    \/ a.year = b.year /\ a.month = b.month /\ a.day < b.day

DateLeq(a, b) == a = b \/ DateLess(a, b)

IsLeapYear(y) == (y % 4 = 0 /\ y % 100 # 0) \/ y % 400 = 0

DaysInMonth(y, m) ==
    IF m = 2 THEN (IF IsLeapYear(y) THEN 29 ELSE 28)
    ELSE IF m \in {4, 6, 9, 11} THEN 30 ELSE 31

(***************************************************************************)
(* Text.  Characters are one-character strings; CharCode gives the byte    *)
(* SQLite's BINARY collation compares.                                     *)
(***************************************************************************)
DigitChar == <<"0", "1", "2", "3", "4", "5", "6", "7", "8", "9">>

\* The bytes of the characters a date text is made of.
CharCodes ==
    "+" :> 43 @@ "-" :> 45 @@ "0" :> 48 @@ "1" :> 49 @@ "2" :> 50 @@ "3" :> 51
    @@ "4" :> 52 @@ "5" :> 53 @@ "6" :> 54 @@ "7" :> 55 @@ "8" :> 56 @@ "9" :> 57

CharCode(c) == CharCodes[c]

IsDigit(c) == c \in {"0", "1", "2", "3", "4", "5", "6", "7", "8", "9"}
DigitValue(c) == CharCodes[c] - 48

\* memcmp over the common prefix, then the shorter text first.
RECURSIVE TextLessFrom(_, _, _)
TextLessFrom(a, b, i) ==
    IF i > Len(b) THEN FALSE
    ELSE IF i > Len(a) THEN TRUE
    ELSE IF a[i] = b[i] THEN TextLessFrom(a, b, i + 1)
    ELSE CharCode(a[i]) < CharCode(b[i])

TextLess(a, b) == a # b /\ TextLessFrom(a, b, 1)

TextLeq(a, b) == a = b \/ TextLess(a, b)

\* Decimal digits of a natural number, most significant first.
RECURSIVE DigitsOf(_)
DigitsOf(n) ==
    IF n < 10 THEN <<DigitChar[n + 1]>>
    ELSE Append(DigitsOf(n \div 10), DigitChar[(n % 10) + 1])

RECURSIVE ZeroPad(_, _)
ZeroPad(s, width) == IF Len(s) >= width THEN s ELSE ZeroPad(<<"0">> \o s, width)

\* NaiveDate's Display: "YYYY-MM-DD" for years 0..9999, and an explicitly
\* signed year of at least four digits otherwise ("{:+05}").
DateToString(d) ==
    LET y == d.year
        yearText == IF y >= 0 /\ y <= 9999 THEN ZeroPad(DigitsOf(y), 4)
                    ELSE IF y > 9999 THEN <<"+">> \o ZeroPad(DigitsOf(y), 4)
                    ELSE <<"-">> \o ZeroPad(DigitsOf(0 - y), 4)
    IN  yearText \o <<"-">> \o ZeroPad(DigitsOf(d.month), 2)
                 \o <<"-">> \o ZeroPad(DigitsOf(d.day), 2)

\* The number of leading decimal digits of s, at most max of them.
RECURSIVE LeadingDigits(_, _)
LeadingDigits(s, max) ==
    IF s = <<>> \/ max = 0 \/ ~IsDigit(Head(s)) THEN 0
    ELSE 1 + LeadingDigits(Tail(s), max - 1)

RECURSIVE NumberOf(_)
NumberOf(s) ==
    IF s = <<>> THEN 0
    ELSE NumberOf(SubSeq(s, 1, Len(s) - 1)) * 10 + DigitValue(s[Len(s)])

Drop(s, n) == SubSeq(s, n + 1, Len(s))

\* NaiveDate::parse_from_str(text, "%Y-%m-%d"): a year of up to four digits,
\* or of any number of digits after an explicit sign; a month and a day of
\* one or two digits; nothing after the day; a date of the calendar.
ParseDate(text) ==
    LET signed == text # <<>> /\ Head(text) \in {"+", "-"}
        s1 == IF signed THEN Tail(text) ELSE text
        ny == LeadingDigits(s1, IF signed THEN Len(s1) ELSE 4)
        yAbs == NumberOf(SubSeq(s1, 1, ny))
        y == IF signed /\ Head(text) = "-" THEN 0 - yAbs ELSE yAbs
        s2 == Drop(s1, ny)
        s3 == IF s2 # <<>> THEN Tail(s2) ELSE <<>>
        nm == LeadingDigits(s3, 2)
        m == NumberOf(SubSeq(s3, 1, nm))
        s4 == Drop(s3, nm)
        s5 == IF s4 # <<>> THEN Tail(s4) ELSE <<>>
        nd == LeadingDigits(s5, 2)
        d == NumberOf(SubSeq(s5, 1, nd))
    IN  IF /\ ny >= 1
           /\ s2 # <<>> /\ Head(s2) = "-"
           /\ nm >= 1
           /\ s4 # <<>> /\ Head(s4) = "-"
           /\ nd >= 1
           /\ Drop(s5, nd) = <<>>
           /\ m >= 1 /\ m <= 12
           /\ d >= 1 /\ d <= DaysInMonth(y, m)
        THEN Ok(Date(y, m, d))
        ELSE Err("ParseError")

(***************************************************************************)
(* Category and Expense.                                                   *)
(***************************************************************************)
\* Names that are empty after trimming.
BlankNames == {"", " "}

Category(name, description) == [name |-> name, description |-> description]

\* Category::new(name, description): rejects a name that is empty after
\* trimming, and otherwise keeps the name and the description as given.
CategoryNew(name, description) ==
    IF name \in BlankNames THEN Err("Category name cannot be empty")
    ELSE Ok(Category(name, description))

\* Expense::new: no validation, id absent.
ExpenseNew(amount, category, date, description) ==
    [id |-> None, amount |-> amount, category |-> category, date |-> date,
     description |-> description]

WithId(expense, id) == [expense EXCEPT !.id = Some(id)]

SetId(expense, id) == [expense EXCEPT !.id = Some(id)]

(***************************************************************************)
(* Category with its type, and the CategoryRegistry.                       *)
(***************************************************************************)
\* The characters of each name the registry is exercised with.
Bytes ==
    "Food" :> <<"F", "o", "o", "d">> @@
    "Housing" :> <<"H", "o", "u", "s", "i", "n", "g">> @@
    "Transportation" :>
        <<"T", "r", "a", "n", "s", "p", "o", "r", "t", "a", "t", "i", "o", "n">> @@
    "Utilities" :> <<"U", "t", "i", "l", "i", "t", "i", "e", "s">> @@
    "Healthcare" :> <<"H", "e", "a", "l", "t", "h", "c", "a", "r", "e">> @@
    "Entertainment" :>
        <<"E", "n", "t", "e", "r", "t", "a", "i", "n", "m", "e", "n", "t">> @@
    "Household" :> <<"H", "o", "u", "s", "e", "h", "o", "l", "d">> @@
    "food" :> <<"f", "o", "o", "d">> @@
    "FOOD" :> <<"F", "O", "O", "D">> @@
    "Books" :> <<"B", "o", "o", "k", "s">> @@
    "books" :> <<"b", "o", "o", "k", "s">> @@
    "BOOKS" :> <<"B", "O", "O", "K", "S">> @@
    "Foods" :> <<"F", "o", "o", "d", "s">> @@
    "Personal" :> <<"P", "e", "r", "s", "o", "n", "a", "l">> @@
    "Education" :> <<"E", "d", "u", "c", "a", "t", "i", "o", "n">> @@
    "" :> <<>> @@
    " " :> <<" ">>

\* u8::to_ascii_lowercase on the letters that occur in Bytes.
UpperToLower ==
    "B" :> "b" @@ "D" :> "d" @@ "E" :> "e" @@ "F" :> "f" @@ "H" :> "h" @@
    "K" :> "k" @@ "O" :> "o" @@ "P" :> "p" @@ "S" :> "s" @@ "T" :> "t" @@
    "U" :> "u" @@ "Y" :> "y"

ToAsciiLowercase(c) == IF c \in DOMAIN UpperToLower THEN UpperToLower[c] ELSE c

\* Faulty variant of eq_ignore_ascii_case: the bytes are compared as they are.
EqSameCase(a, b) == Bytes[a] = Bytes[b]

\* str::eq_ignore_ascii_case: same length, and byte by byte equal after
\* to_ascii_lowercase.
EqIgnoreAsciiCase(a, b) ==
    LET x == Bytes[a]
        y == Bytes[b]
    IN  /\ Len(x) = Len(y)
        /\ \A i \in 1..Len(x) : ToAsciiLowercase(x[i]) = ToAsciiLowercase(y[i])

CategoryType == {"System", "Custom"}

\* Category::new(name, category_type, description): no validation.
CategoryOfType(name, category_type, description) ==
    [name |-> name, category_type |-> category_type, description |-> description]

\* impl PartialEq for Category: the names are compared as they are, and the
\* types; the description is left out.
CategoryEq(a, b) == a.name = b.name /\ a.category_type = b.category_type

\* impl Hash for Category: what is fed to the hasher.
CategoryHash(c) == <<c.name, c.category_type>>

\* HashSet::insert: a value equal to one already held is not inserted.
HashSetInsert(set, c) ==
    IF \E x \in set : CategoryEq(x, c) THEN set ELSE set \cup {c}

RECURSIVE HashSetCollect(_, _)
HashSetCollect(set, seq) ==
    IF seq = <<>> THEN set
    ELSE HashSetCollect(HashSetInsert(set, Head(seq)), Tail(seq))

get_system_categories ==
    << CategoryOfType("Food", "System", Some("Groceries, restaurants, takeout, etc.")),
       CategoryOfType("Housing", "System", Some("Rent, mortgage, property taxes, repairs")),
       CategoryOfType("Transportation", "System",
                      Some("Public transit, gas, car maintenance, rideshares")),
       CategoryOfType("Utilities", "System",
                      Some("Electricity, water, heating, internet, phone")),
       CategoryOfType("Healthcare", "System", Some("Doctor visits, medications, insurance")),
       CategoryOfType("Entertainment", "System",
                      Some("Movies, games, subscriptions, hobbies")),
       CategoryOfType("Household", "System",
                      Some("Furniture, kitchen ware, office supplies, etc.")) >>

\* CategoryRegistry::new()
CategoryRegistryNew ==
    [system_categories |-> HashSetCollect({}, get_system_categories),
     custom_categories |-> {}]

\* load_custom_categories: the custom set is cleared, then every name is
\* inserted as a Custom category without description.
LoadCustomCategories(reg, category_names) ==
    [reg EXCEPT !.custom_categories =
        HashSetCollect({}, [i \in 1..Len(category_names) |->
                                CategoryOfType(category_names[i], "Custom", None)])]

\* all_categories: the system entries chained with the custom entries, each
\* in its set's iteration order; a System and a Custom entry are never the
\* same value, so the entries are given as a set.
AllCategories(reg) == reg.system_categories \cup reg.custom_categories

\* Faulty variant of category_exists: the names are compared as they are.
CategoryExistsExact(reg, name) ==
    \/ \E c \in reg.system_categories : c.name = name
    \/ \E c \in reg.custom_categories : c.name = name

CategoryExists(reg, name) ==
    \/ \E c \in reg.system_categories : EqIgnoreAsciiCase(c.name, name)
    \/ \E c \in reg.custom_categories : EqIgnoreAsciiCase(c.name, name)

\* get_category: the first match among the system entries, or else the
\* first match among the custom entries.  Which entry a HashSet's iterator
\* meets first is not determined, so every match of the set is a possible
\* result.
GetCategory(reg, name) ==
    LET sys == {c \in reg.system_categories : EqIgnoreAsciiCase(c.name, name)}
        cus == {c \in reg.custom_categories : EqIgnoreAsciiCase(c.name, name)}
    IN  IF sys # {} THEN {Some(c) : c \in sys}
        ELSE IF cus # {} THEN {Some(c) : c \in cus}
        ELSE {None}

\* Faulty variant of add_custom_category: no check for an existing entry.
AddCustomCategoryUnchecked(reg, name, description) ==
    LET after == [reg EXCEPT !.custom_categories =
                     HashSetInsert(@, CategoryOfType(name, "Custom", description))]
    IN  {[registry |-> after, result |-> Ok(Unwrap(found))] :
            found \in GetCategory(after, name)}

\* add_custom_category: the possible outcomes, each the registry afterwards
\* and the value returned.
AddCustomCategory(reg, name, description) ==
    IF CategoryExists(reg, name)
    THEN {[registry |-> reg, result |-> Err("InvalidCategory: already exists")]}
    ELSE LET after == [reg EXCEPT !.custom_categories =
                          HashSetInsert(@, CategoryOfType(name, "Custom", description))]
         IN  {[registry |-> after, result |-> Ok(Unwrap(found))] :
                 found \in GetCategory(after, name)}

\* remove_category(name): fails when no entry matches the name ignoring
\* case; otherwise the matching entries leave the registry.
RemoveCategory(reg, name) ==
    IF ~CategoryExists(reg, name)
    THEN [registry |-> reg, result |-> Err("CategoryNotFound")]
    ELSE [registry |->
            [system_categories |->
                {c \in reg.system_categories : ~EqIgnoreAsciiCase(c.name, name)},
             custom_categories |->
                {c \in reg.custom_categories : ~EqIgnoreAsciiCase(c.name, name)}],
          result |-> Ok(<<>>)]

(***************************************************************************)
(* Config: the configuration file and the seeding of the registry.         *)
(***************************************************************************)
\* The paths --config is given: its default value and another file.
Paths == {"expense_log.yaml", "other.yaml"}

\* Config::default()
ConfigDefault ==
    [database_path |-> "expense_log.db",
     currency_symbol |-> "$",
     categories |->
        {Category("Food", Some("Groceries, restaurants, takeout")),
         Category("Housing", Some("Rent, mortgage, repairs")),
         Category("Transportation", Some("Public transit, gas, car maintenance")),
         Category("Utilities", Some("Electricity, water, internet")),
         Category("Healthcare", Some("Doctor visits, medications")),
         Category("Entertainment", Some("Movies, games, hobbies")),
         Category("Personal", Some("Clothing, haircuts, gym")),
         Category("Education", Some("Tuition, books, courses"))}]

\* Config::load: the defaults when no file is at the path, and otherwise the
\* Config the file holds.
ConfigLoad(fs, path) == IF fs[path] = None THEN ConfigDefault ELSE Unwrap(fs[path])

\* Config::save: the file at the path holds the Config.
ConfigSave(fs, path, cfg) == [fs EXCEPT ![path] = Some(cfg)]

\* The registry's bulk load as configure_category_registry uses it: the
\* custom set is cleared, then every configured name is inserted as a Custom
\* category without description (load_custom_categories on the names).
LoadCategories(reg, categories) ==
    [reg EXCEPT !.custom_categories =
        {CategoryOfType(c.name, "Custom", None) : c \in categories}]

\* Config::configure_category_registry
ConfigureCategoryRegistry(cfg, reg) == LoadCategories(reg, cfg.categories)

\* App::new: the registry the App holds for a Config.
AppNew(cfg) == ConfigureCategoryRegistry(cfg, CategoryRegistryNew)

(***************************************************************************)
(* Values the operations are exercised with.                               *)
(***************************************************************************)
Amounts == {100, 200}

Categories ==
    {Category("Food", None), Category("food", Some("Snacks"))}

\* Category names asked for in queries; "FOOD" is never stored.
QueryNames == {"Food", "food", "FOOD"}

\* The last day of a month, the first day of the next month, and a date
\* whose year has five digits.
Dates == {Date(2025, 1, 31), Date(2025, 2, 1), Date(10000, 1, 1)}

Descriptions == {"Weekly shopping", "Monthly rent"}

Ids == 1..MaxId

\* Ids asked for in lookups and deletes; MaxId + 1 is never assigned.
QueryIds == 1..(MaxId + 1)

\* The expenses a caller can hand to save: transient ones built by
\* Expense::new, and ones that carry an id (with_id / set_id).
TransientExpenses ==
    {ExpenseNew(a, c, d, t) : a \in Amounts, c \in Categories, d \in Dates,
                              t \in Descriptions}

Expenses == TransientExpenses \cup {WithId(e, i) : e \in TransientExpenses, i \in Ids}

(***************************************************************************)
(* The expenses table (initialize_schema) and the SQL statements.          *)
(***************************************************************************)
VARIABLES
    expenses,   \* the rows of table expenses
    assigned,   \* history: every id an insert has assigned so far
    last,       \* the call that has just returned: its arguments and what it
                \* returned; [op |-> "none"] between calls
    registry,   \* the CategoryRegistry: its system and its custom categories
    expense,    \* the Expense value the caller holds and mutates, if any
    files,      \* the configuration files on disk: for each path the Config
                \* saved there, if any
    config_path,\* cli.config: the path the configuration was loaded from
    config      \* the Config the App holds

vars == <<expenses, assigned, last, registry, expense, files, config_path, config>>

\* The column values save binds for an expense, with the row's id.
Row(id, e) ==
    [id |-> id, amount |-> e.amount, category |-> e.category.name,
     category_description |-> e.category.description,
     date |-> DateToString(e.date), description |-> e.description]

RowIds(table) == {r.id : r \in table}

Max(S) == CHOOSE x \in S : \A y \in S : y <= x

\* id INTEGER PRIMARY KEY: an insert that gives no id gets one more than the
\* largest id in the table, and 1 when the table is empty.
NextRowid(table) == IF table = {} THEN 1 ELSE Max(RowIds(table)) + 1

\* INSERT INTO expenses (amount, category, category_description, date,
\* description) VALUES (...)
InsertRow(table, e) == table \cup {Row(NextRowid(table), e)}

\* Faulty variant: the update leaves out category_description = ?3.
UpdateRowsKeepCategoryDescription(table, e) ==
    {IF r.id = Unwrap(e.id)
     THEN [Row(r.id, e) EXCEPT !.category_description = r.category_description]
     ELSE r : r \in table}

\* Faulty variant: the update written as INSERT OR REPLACE.
UpdateRowsUpsert(table, e) ==
    {r \in table : r.id # Unwrap(e.id)} \cup {Row(Unwrap(e.id), e)}

\* Faulty variant: the update without its WHERE id = ?6.
UpdateRowsEverywhere(table, e) ==
    IF \E r \in table : r.id = Unwrap(e.id)
    THEN {Row(r.id, e) : r \in table}
    ELSE table

\* UPDATE expenses SET amount, category, category_description, date,
\* description WHERE id = ?6
UpdateRows(table, e) ==
    {IF r.id = Unwrap(e.id) THEN Row(r.id, e) ELSE r : r \in table}

\* Faulty variant: DELETE FROM expenses WHERE id <= ?1
DeleteRowsUpTo(table, id) == {r \in table : r.id > id}

\* DELETE FROM expenses WHERE id = ?1
DeleteRows(table, id) == {r \in table : r.id # id}

\* The number of rows a statement with WHERE id = ? touches.
Affected(table, id) == Cardinality({r \in table : r.id = id})

\* ParseDate, with the texts save writes for Dates, and for the day the
\* commands of the application run on, parsed once.
ParsedDateTexts ==
    [text \in {DateToString(d) : d \in Dates \cup {Date(2025, 1, 15)}} |->
        ParseDate(text)]

ParseStoredDate(text) ==
    IF text \in DOMAIN ParsedDateTexts THEN ParsedDateTexts[text] ELSE ParseDate(text)

\* The row-mapping closure of every SELECT: the date text is parsed, the
\* category is rebuilt, and the expense gets the row's id.
RowToExpense(r) ==
    LET date == ParseStoredDate(r.date)
        category == CategoryNew(r.category, r.category_description)
    IN  IF ~date.ok THEN Err("Invalid date format")
        ELSE IF ~category.ok THEN Err("Invalid category")
        ELSE Ok(WithId(ExpenseNew(r.amount, category.value, date.value, r.description),
                       r.id))

\* Every sequence that lists each element of S exactly once.
RECURSIVE Perms(_)
Perms(S) ==
    IF S = {} THEN {<<>>}
    ELSE UNION {{<<x>> \o p : p \in Perms(S \ {x})} : x \in S}

\* ORDER BY date DESC: the rows in descending order of the date TEXT; rows
\* with equal text come in an order SQLite does not fix.
RECURSIVE OrderByDateDesc(_)
OrderByDateDesc(rows) ==
    IF rows = {} THEN {<<>>}
    ELSE LET first == {r \in rows : \A x \in rows : ~TextLess(r.date, x.date)}
         IN  UNION {{<<r>> \o p : p \in OrderByDateDesc(rows \ {r})} : r \in first}

\* Faulty variant: a row that does not map is skipped.
MapRowsSkipping(rows) ==
    LET good == {r \in rows : RowToExpense(r).ok}
    IN  {Ok([i \in 1..Len(p) |-> RowToExpense(p[i]).value]) : p \in OrderByDateDesc(good)}

\* query_map and the collecting loop over the selected rows: each row is
\* mapped, in each order ORDER BY date DESC allows, and the first row that
\* does not map ends the query with an error.
MapRows(rows) ==
    LET mapped == [r \in rows |-> RowToExpense(r)]
    IN  {IF \E r \in rows : ~mapped[r].ok
         THEN Err("DatabaseError")
         ELSE Ok([i \in 1..Len(p) |-> mapped[p[i]].value]) : p \in OrderByDateDesc(rows)}

\* WHERE date >= ?1 AND date <= ?2, with the bounds bound as text.
DateBetween(r, start, end) ==
    /\ TextLeq(DateToString(start), r.date)
    /\ TextLeq(r.date, DateToString(end))

RECURSIVE SumAmount(_)
SumAmount(rows) ==
    IF rows = {} THEN 0
    ELSE LET r == CHOOSE x \in rows : TRUE IN r.amount + SumAmount(rows \ {r})

\* get_by_id: SELECT ... WHERE id = ?1, query_row.
GetById(table, id) ==
    LET rows == {r \in table : r.id = id}
    IN  IF rows = {} THEN Ok(None)
        ELSE LET e == RowToExpense(CHOOSE r \in rows : TRUE)
             IN  IF e.ok THEN Ok(Some(e.value)) ELSE Err("DatabaseError")

\* get_all: SELECT ... ORDER BY date DESC.  The set of results it may return.
GetAll(table) == MapRows(table)

\* get_by_category: SELECT ... WHERE category = ?1 ORDER BY date DESC.
GetByCategory(table, category_name) ==
    MapRows({r \in table : r.category = category_name})

\* get_by_date_range: SELECT ... WHERE date >= ?1 AND date <= ?2 ORDER BY date DESC.
GetByDateRange(table, start, end) ==
    MapRows({r \in table : DateBetween(r, start, end)})

\* get_category_total: SELECT COALESCE(SUM(amount), 0.0) ... WHERE category = ?1
\* AND date >= ?2 AND date <= ?3.
GetCategoryTotal(table, category_name, start, end) ==
    Ok(SumAmount({r \in table : r.category = category_name /\ DateBetween(r, start, end)}))

\* The number of months the range spans, as get_monthly_category_averages counts it.
Months(start, end) ==
    (end.year * 12 + end.month) - (start.year * 12 + start.month) + 1

\* total / (months as f64), kept as the exact fraction.
Average(total, months) == [num |-> total, den |-> months]

\* get_monthly_category_averages: no pair when months <= 0; otherwise SELECT
\* category, SUM(amount) ... WHERE date >= ?1 AND date <= ?2 GROUP BY category,
\* each total divided by months.  The set of results it may return (GROUP BY
\* fixes no order of the groups).
GetMonthlyCategoryAverages(table, start, end) ==
    LET months == Months(start, end)
        inRange == {r \in table : DateBetween(r, start, end)}
        groups == {r.category : r \in inRange}
        pair(c) == <<c, Average(SumAmount({r \in inRange : r.category = c}), months)>>
    IN  IF months <= 0 THEN {Ok(<<>>)}
        ELSE {Ok([i \in 1..Len(p) |-> pair(p[i])]) : p \in Perms(groups)}

(***************************************************************************)
(* The state after SqliteExpenseRepository::new_in_memory(), and one       *)
(* action per repository operation.                                        *)
(***************************************************************************)
Init ==
    /\ expenses = {}
    /\ assigned = {}
    /\ last = [op |-> "none"]
    /\ registry = CategoryRegistryNew
    /\ expense = None
    /\ files = [p \in Paths |-> None]
    /\ config_path = "expense_log.yaml"
    /\ config = ConfigDefault

\* The caller is between two calls: the previous call's result is consumed.
Idle == last.op = "none"

\* save(&mut expense) with id absent: insert, then set the expense's id to
\* last_insert_rowid().
SaveInsert(e) ==
    /\ Idle
    /\ e.id = None
    /\ NextRowid(expenses) <= MaxId
    /\ expenses' = InsertRow(expenses, e)
    /\ assigned' = assigned \cup {NextRowid(expenses)}
    /\ last' = [op |-> "save", arg |-> e, affected |-> 1,
                expense |-> SetId(e, NextRowid(expenses)), result |-> Ok(<<>>)]
    /\ UNCHANGED <<registry, expense, files, config_path, config>>

\* save(&mut expense) with id present: update by id.
SaveUpdate(e) ==
    /\ Idle
    /\ e.id # None
    /\ expenses' = UpdateRows(expenses, e)
    /\ assigned' = assigned
    /\ last' = [op |-> "save", arg |-> e, affected |-> Affected(expenses, Unwrap(e.id)),
                expense |-> e, result |-> Ok(<<>>)]
    /\ UNCHANGED <<registry, expense, files, config_path, config>>

Save == \E e \in Expenses : SaveInsert(e) \/ SaveUpdate(e)

Delete ==
    \E id \in QueryIds :
        /\ Idle
        /\ expenses' = DeleteRows(expenses, id)
        /\ last' = [op |-> "delete", id |-> id,
                    result |-> Ok(Cardinality(expenses \ DeleteRows(expenses, id)) > 0)]
        /\ UNCHANGED <<assigned, registry, expense, files, config_path, config>>

DoGetById ==
    /\ Idle
    /\ \E id \in QueryIds :
        /\ last' = [op |-> "get_by_id", id |-> id, result |-> GetById(expenses, id)]
        /\ UNCHANGED <<expenses, assigned, registry, expense, files, config_path, config>>

DoGetAll ==
    /\ Idle
    /\ \E res \in GetAll(expenses) :
        /\ last' = [op |-> "get_all", result |-> res]
        /\ UNCHANGED <<expenses, assigned, registry, expense, files, config_path, config>>

DoGetByCategory ==
    /\ Idle
    /\ \E name \in QueryNames :
        \E res \in GetByCategory(expenses, name) :
            /\ last' = [op |-> "get_by_category", category_name |-> name, result |-> res]
            /\ UNCHANGED <<expenses, assigned, registry, expense, files, config_path, config>>

DoGetByDateRange ==
    /\ Idle
    /\ \E start \in Dates, end \in Dates :
        \E res \in GetByDateRange(expenses, start, end) :
            /\ last' = [op |-> "get_by_date_range", start |-> start, end |-> end,
                        result |-> res]
            /\ UNCHANGED <<expenses, assigned, registry, expense, files, config_path, config>>

DoGetCategoryTotal ==
    /\ Idle
    /\ \E name \in QueryNames, start \in Dates, end \in Dates :
        /\ last' = [op |-> "get_category_total", category_name |-> name,
                    start |-> start, end |-> end,
                    result |-> GetCategoryTotal(expenses, name, start, end)]
        /\ UNCHANGED <<expenses, assigned, registry, expense, files, config_path, config>>

DoGetMonthlyCategoryAverages ==
    /\ Idle
    /\ \E start \in Dates, end \in Dates :
        \E res \in GetMonthlyCategoryAverages(expenses, start, end) :
            /\ last' = [op |-> "get_monthly_category_averages", start |-> start,
                        end |-> end, result |-> res]
            /\ UNCHANGED <<expenses, assigned, registry, expense, files, config_path, config>>

\* The call has returned and the caller has consumed its result.
Return ==
    /\ ~Idle
    /\ last' = [op |-> "none"]
    /\ UNCHANGED <<expenses, assigned, registry, expense, files, config_path, config>>

Next ==
    \/ Save
    \/ Delete
    \/ DoGetById
    \/ DoGetAll
    \/ DoGetByCategory
    \/ DoGetByDateRange
    \/ DoGetCategoryTotal
    \/ DoGetMonthlyCategoryAverages
    \/ Return

Spec == Init /\ [][Next]_vars

(***************************************************************************)
(* Properties of the store.                                                *)
(***************************************************************************)
\* The step is a save of a transient expense (id absent).
InsertSaved == last'.op = "save" /\ last'.arg.id = None

\* The chronological date of a stored row.
StoredDate(r) == ParseStoredDate(r.date).value

\* C1: round-trip.  A save of an expense with id absent assigns an id that is
\* strictly positive and held by no row now or before, and get_by_id(id) then
\* returns an expense with the same amount, category name, category
\* description, date and description.
C1_RoundTrip ==
    [][InsertSaved =>
        /\ IsSome(last'.expense.id)
        /\ LET id == Unwrap(last'.expense.id)
           IN  /\ id > 0
               /\ id \notin RowIds(expenses)
               /\ id \notin assigned
               /\ GetById(expenses', id) = Ok(Some(SetId(last'.arg, id)))]_vars

\* C2: ids are monotonically increasing and never reused.  Each newly
\* assigned id is strictly greater than every id assigned before, the ids of
\* deleted rows included.
C2_IdsNeverReused ==
    [][InsertSaved =>
        \A j \in assigned : Unwrap(last'.expense.id) > j]_vars

\* C3: update idempotence.  A save of an expense whose id is set never creates
\* a row: get_all returns as many expenses after it as before, whether or not
\* a row with that id exists.
C3_UpdateCreatesNoRow ==
    [][(last'.op = "save" /\ last'.arg.id # None) =>
        LET before == GetAll(expenses)
            after == GetAll(expenses')
        IN  /\ \A res \in before : res.ok
            /\ \A res \in after :
                  res.ok /\ \E was \in before : Len(res.value) = Len(was.value)]_vars

\* A save with an id that no row holds has returned, and the store holds rows.
C3_Witness ==
    /\ last.op = "save"
    /\ last.arg.id # None
    /\ last.affected = 0
    /\ expenses # {}

\* C4: a save whose id matches a stored row is a full-row update.  get_by_id(id)
\* then returns the expense's amount, category name, category description,
\* date and description, and the save leaves the expense's id as it was.
C4_FullRowUpdate ==
    (last.op = "save" /\ last.arg.id # None /\ last.affected > 0) =>
        /\ GetById(expenses, Unwrap(last.arg.id)) = Ok(Some(last.arg))
        /\ last.expense.id = last.arg.id

\* An update has matched a row, and wrote a category description; another row
\* is stored beside it.
C4_Witness ==
    /\ last.op = "save"
    /\ last.arg.id # None
    /\ last.affected = 1
    /\ last.arg.category.description # None
    /\ Cardinality(expenses) > 1

\* C5: delete(id) of an id with a stored row returns true and get_by_id(id) is
\* then absent; delete(id) of an id with no stored row returns false and
\* leaves the store as it was.
C5_Delete ==
    [][last'.op = "delete" =>
        IF last'.id \in RowIds(expenses)
        THEN /\ last'.result = Ok(TRUE)
             /\ GetById(expenses', last'.id) = Ok(None)
        ELSE /\ last'.result = Ok(FALSE)
             /\ expenses' = expenses]_vars

\* A delete has returned true and removed its row, and another row remains.
C5_Witness ==
    /\ last.op = "delete"
    /\ last.result = Ok(TRUE)
    /\ GetById(expenses, last.id) = Ok(None)
    /\ expenses # {}

\* The stored expenses: what the rows of the table map to.
StoredExpenses == {RowToExpense(r).value : r \in expenses}

\* The date d is in [start, end], both bounds included.
InRange(d, start, end) == DateLeq(start, d) /\ DateLeq(d, end)

\* The sequence is ordered by date, descending.
DateDescending(seq) ==
    \A i \in 1..(Len(seq) - 1) : ~DateLess(seq[i].date, seq[i + 1].date)

\* The sequence lists exactly the expenses of S, each once.
ListsExactly(seq, S) ==
    /\ {seq[i] : i \in 1..Len(seq)} = S
    /\ Len(seq) = Cardinality(S)

\* C6: get_category_total(name, start, end) is the sum of amount over exactly
\* the stored expenses with that category name and start <= date <= end, and
\* 0 when none match.
C6_CategoryTotal ==
    last.op = "get_category_total" =>
        last.result =
            Ok(SumAmount({r \in expenses :
                            /\ r.category = last.category_name
                            /\ InRange(StoredDate(r), last.start, last.end)}))

\* C7: get_monthly_category_averages(start, end) returns nothing when months <= 0,
\* and otherwise exactly one pair (name, S / months) for each category name
\* with a stored expense dated in [start, end], S being the sum of those
\* expenses' amounts, with the one divisor months for every category.
C7_MonthlyAverages ==
    last.op = "get_monthly_category_averages" =>
        LET months == (last.end.year * 12 + last.end.month)
                        - (last.start.year * 12 + last.start.month) + 1
            inRange == {r \in expenses : InRange(StoredDate(r), last.start, last.end)}
            names == {r.category : r \in inRange}
            S(c) == SumAmount({r \in inRange : r.category = c})
            pairs == last.result.value
        IN  /\ last.result.ok
            /\ IF months <= 0 THEN pairs = <<>>
               ELSE /\ {pairs[i] : i \in 1..Len(pairs)}
                          = {<<c, [num |-> S(c), den |-> months]>> : c \in names}
                    /\ Len(pairs) = Cardinality(names)

\* C8: get_all returns every stored expense exactly once, with its id, ordered
\* by date descending.
C8_GetAll ==
    last.op = "get_all" =>
        /\ last.result.ok
        /\ ListsExactly(last.result.value, StoredExpenses)
        /\ DateDescending(last.result.value)

\* C9: get_by_category(name) returns exactly the stored expenses whose category
\* name equals name character for character, ordered by date descending.
C9_GetByCategory ==
    last.op = "get_by_category" =>
        /\ last.result.ok
        /\ ListsExactly(last.result.value,
                        {e \in StoredExpenses : e.category.name = last.category_name})
        /\ DateDescending(last.result.value)

\* C10: get_by_date_range(start, end) returns exactly the stored expenses with
\* start <= date <= end, both bounds included, ordered by date descending,
\* and nothing when start > end.
C10_GetByDateRange ==
    last.op = "get_by_date_range" =>
        /\ last.result.ok
        /\ ListsExactly(last.result.value,
                        {e \in StoredExpenses : InRange(e.date, last.start, last.end)})
        /\ DateDescending(last.result.value)
        /\ DateLess(last.end, last.start) => last.result.value = <<>>

\* The repository operations that only read.
ReadOps ==
    {"get_by_id", "get_all", "get_by_category", "get_by_date_range",
     "get_category_total", "get_monthly_category_averages"}

\* The rows of the table whose id is not id.
RowsOtherThan(table, id) == {r \in table : r.id # id}

\* C27: store operations touch only the addressed row.  An insert-save keeps
\* every stored row and adds exactly one; an update-save with id i and
\* delete(i) leave every row of another id as it was and add none; the
\* read operations leave the table as it was; and no two stored rows share
\* an id.
C27_OnlyAddressedRow ==
    [][/\ (last'.op = "save" /\ last'.arg.id = None) =>
             /\ expenses \subseteq expenses'
             /\ Cardinality(expenses' \ expenses) = 1
       /\ (last'.op = "save" /\ last'.arg.id # None) =>
             /\ RowsOtherThan(expenses', Unwrap(last'.arg.id))
                   = RowsOtherThan(expenses, Unwrap(last'.arg.id))
             /\ Cardinality(expenses') = Cardinality(expenses)
       /\ (last'.op = "delete") =>
             /\ RowsOtherThan(expenses', last'.id) = RowsOtherThan(expenses, last'.id)
             /\ expenses' \subseteq expenses
       /\ (last'.op \in ReadOps) => expenses' = expenses
       /\ \A a \in expenses', b \in expenses' : a.id = b.id => a = b]_vars

\* An update-save has changed the row of its id while the table holds a row
\* of another id with other values.
C27_Witness ==
    /\ last.op = "save"
    /\ last.arg.id # None
    /\ last.affected = 1
    /\ \E r \in expenses :
          /\ r.id # Unwrap(last.arg.id)
          /\ r.amount # last.arg.amount
          /\ r.date # DateToString(last.arg.date)

(***************************************************************************)
(* The category registry: one action per CategoryRegistry operation.       *)
(***************************************************************************)
\* Names handed to load_custom_categories and add_custom_category: two
\* casings of a new name, another casing of a system name, and a blank name.
RegistryNames == {"Books", "books", "food", " "}

\* Names asked for in lookups and removals.
RegistryQueryNames ==
    RegistryNames \cup {"Food", "FOOD", "BOOKS", "Foods", "Housing", ""}

CategoryDescriptions == {None, Some("Paper and e-books")}

\* The lists of names a configuration can hold, up to two names.
NameLists ==
    {<<>>} \cup {<<a>> : a \in RegistryNames}
           \cup {<<a, b>> : a \in RegistryNames, b \in RegistryNames}

DoLoadCustomCategories ==
    /\ Idle
    /\ \E names \in NameLists :
        /\ registry' = LoadCustomCategories(registry, names)
        /\ last' = [op |-> "load_custom_categories", category_names |-> names,
                    before |-> registry]
        /\ UNCHANGED <<expenses, assigned, expense, files, config_path, config>>

DoAddCustomCategory ==
    /\ Idle
    /\ \E name \in RegistryNames, description \in CategoryDescriptions :
        \E out \in AddCustomCategory(registry, name, description) :
            /\ registry' = out.registry
            /\ last' = [op |-> "add_custom_category", name |-> name,
                        description |-> description, before |-> registry,
                        result |-> out.result]
            /\ UNCHANGED <<expenses, assigned, expense, files, config_path, config>>

DoRemoveCategory ==
    /\ Idle
    /\ \E name \in RegistryQueryNames :
        /\ registry' = RemoveCategory(registry, name).registry
        /\ last' = [op |-> "remove_category", name |-> name, before |-> registry,
                    result |-> RemoveCategory(registry, name).result]
        /\ UNCHANGED <<expenses, assigned, expense, files, config_path, config>>

DoCategoryExists ==
    /\ Idle
    /\ \E name \in RegistryQueryNames :
        /\ last' = [op |-> "category_exists", name |-> name,
                    result |-> CategoryExists(registry, name)]
        /\ UNCHANGED <<expenses, assigned, registry, expense, files, config_path, config>>

DoGetCategory ==
    /\ Idle
    /\ \E name \in RegistryQueryNames :
        \E found \in GetCategory(registry, name) :
            /\ last' = [op |-> "get_category", name |-> name, result |-> found]
            /\ UNCHANGED <<expenses, assigned, registry, expense, files, config_path, config>>

\* The Category values compared with ==: two casings of one name and another
\* name, of either type, with and without description.
SampleCategories ==
    {CategoryOfType(n, t, d) : n \in {"Food", "food", "Books"}, t \in CategoryType,
                               d \in CategoryDescriptions}

\* Category::new called directly.
DoCategoryNew ==
    /\ Idle
    /\ \E name \in RegistryNames, t \in CategoryType, d \in CategoryDescriptions :
        /\ last' = [op |-> "category_new", name |-> name, category_type |-> t,
                    description |-> d, result |-> CategoryOfType(name, t, d)]
        /\ UNCHANGED <<expenses, assigned, registry, expense, files, config_path, config>>

\* a == b on two Category values, and the hash of each.
DoCategoryEq ==
    /\ Idle
    /\ \E a \in SampleCategories, b \in SampleCategories :
        /\ last' = [op |-> "category_eq", a |-> a, b |-> b, result |-> CategoryEq(a, b),
                    hash_a |-> CategoryHash(a), hash_b |-> CategoryHash(b)]
        /\ UNCHANGED <<expenses, assigned, registry, expense, files, config_path, config>>

NextRegistry ==
    \/ DoLoadCustomCategories
    \/ DoAddCustomCategory
    \/ DoRemoveCategory
    \/ DoCategoryExists
    \/ DoGetCategory
    \/ DoCategoryNew
    \/ DoCategoryEq
    \/ Return

SpecRegistry == Init /\ [][NextRegistry]_vars

(***************************************************************************)
(* Properties of the category registry.                                    *)
(***************************************************************************)
\* The name with every ASCII letter in lower case.
Lowered(name) == [i \in 1..Len(Bytes[name]) |-> ToAsciiLowercase(Bytes[name][i])]

\* The two names differ at most in the case of their letters.
SameIgnoringCase(a, b) == Lowered(a) = Lowered(b)

\* C11: registry lookup is case-insensitive.  Names that differ only in
\* letter case get the same answer from exists; exists(name) is true exactly
\* when the registry holds an entry whose name equals name ignoring case;
\* get(name) is present exactly when exists(name) is true, and what it
\* returns is an entry the registry holds, under its stored name and
\* description, whose name equals name ignoring case.
C11_LookupIgnoresCase ==
    /\ \A a \in RegistryQueryNames, b \in RegistryQueryNames :
          SameIgnoringCase(a, b) =>
              CategoryExists(registry, a) = CategoryExists(registry, b)
    /\ (last.op = "category_exists") =>
          (last.result <=>
              \E c \in AllCategories(registry) : SameIgnoringCase(c.name, last.name))
    /\ (last.op = "get_category") =>
          /\ IsSome(last.result) <=> CategoryExists(registry, last.name)
          /\ IsSome(last.result) =>
                /\ Unwrap(last.result) \in AllCategories(registry)
                /\ SameIgnoringCase(Unwrap(last.result).name, last.name)

\* A lookup under another casing than the stored one has returned the stored
\* entry of a custom category, and a lookup of a name that is not held has
\* returned nothing.
C11_Witness ==
    /\ last.op = "get_category"
    /\ IsSome(last.result)
    /\ Unwrap(last.result).name # last.name
    /\ Unwrap(last.result).category_type = "Custom"
    /\ ~CategoryExists(registry, "Foods")

\* C12: adding a name that matches an entry of the registry ignoring case
\* fails with the already-exists error and leaves the registry as it was;
\* adding a name that matches no entry succeeds, and afterwards exists(name)
\* is true and get(name) returns the given name and description.
C12_Add ==
    (last.op = "add_custom_category") =>
        IF \E c \in AllCategories(last.before) : SameIgnoringCase(c.name, last.name)
        THEN /\ last.result = Err("InvalidCategory: already exists")
             /\ registry = last.before
        ELSE /\ last.result.ok
             /\ last.result.value.name = last.name
             /\ last.result.value.description = last.description
             /\ CategoryExists(registry, last.name)
             /\ \A found \in GetCategory(registry, last.name) :
                   /\ IsSome(found)
                   /\ Unwrap(found).name = last.name
                   /\ Unwrap(found).description = last.description

\* An add has failed on a name that differs only in case from a custom
\* category added before it.
C12_Witness ==
    /\ last.op = "add_custom_category"
    /\ ~last.result.ok
    /\ \E c \in last.before.custom_categories :
          /\ c.name # last.name
          /\ SameIgnoringCase(c.name, last.name)
          /\ c.description # None

C14_UniqueNames ==
    \A a \in AllCategories(registry), b \in AllCategories(registry) :
        SameIgnoringCase(a.name, b.name) => a = b

\* C15: two Category values are equal exactly when their names match
\* ignoring case, whatever their descriptions; and equal values have the
\* same hash.
C15_Equality ==
    (last.op = "category_eq") =>
        /\ last.result <=> SameIgnoringCase(last.a.name, last.b.name)
        /\ last.result => last.hash_a = last.hash_b

\* The name is empty after trimming.
Blank(name) == \A i \in 1..Len(Bytes[name]) : Bytes[name][i] = " "

\* C16: constructing a Category with a name that is empty after trimming
\* fails with 'Category name cannot be empty', and no entry of the registry
\* has such a name.
C16_NameNotBlank ==
    /\ (last.op = "category_new" /\ Blank(last.name)) =>
          last.result = Err("Category name cannot be empty")
    /\ \A c \in AllCategories(registry) : ~Blank(c.name)

(***************************************************************************)
(* The Expense entity: its validating constructor and its mutators.        *)
(***************************************************************************)
\* Amounts handed to the validating constructor and to set_amount.
ValidatedAmounts == {-50, 0, 100}

\* Faulty variant of new_validated: an amount of zero is rejected too.
NewValidatedRejectsZero(amount, category, date, description, today) ==
    IF amount <= 0 THEN Err("InvalidAmount")
    ELSE IF DateLess(today, date) THEN Err("InvalidDate")
    ELSE Ok([id |-> None, amount |-> amount, category |-> category, date |-> date,
             description |-> description])

\* Expense::new_validated, with today the date Local::now() gives.
NewValidated(amount, category, date, description, today) ==
    IF amount < 0 THEN Err("InvalidAmount")
    ELSE IF DateLess(today, date) THEN Err("InvalidDate")
    ELSE Ok([id |-> None, amount |-> amount, category |-> category, date |-> date,
             description |-> description])

\* Expense::with_category_name
WithCategoryName(amount, category_name, category_description, date, description, today) ==
    LET category == CategoryNew(category_name, category_description)
    IN  IF ~category.ok THEN Err("InvalidCategory")
        ELSE NewValidated(amount, category.value, date, description, today)

\* Faulty variant of set_amount: the field is assigned before the check.
SetAmountAssignFirst(e, amount) ==
    IF amount < 0
    THEN [expense |-> [e EXCEPT !.amount = amount], result |-> Err("InvalidAmount")]
    ELSE [expense |-> [e EXCEPT !.amount = amount], result |-> Ok(<<>>)]

\* set_amount: the expense afterwards and the value returned.
SetAmount(e, amount) ==
    IF amount < 0
    THEN [expense |-> e, result |-> Err("InvalidAmount")]
    ELSE [expense |-> [e EXCEPT !.amount = amount], result |-> Ok(<<>>)]

SetCategory(e, category) == [e EXCEPT !.category = category]

\* Faulty variant of set_date: today's date is rejected too.
SetDateRejectsToday(e, date, today) ==
    IF DateLeq(today, date)
    THEN [expense |-> e, result |-> Err("InvalidDate")]
    ELSE [expense |-> [e EXCEPT !.date = date], result |-> Ok(<<>>)]

\* set_date: the expense afterwards and the value returned.
SetDate(e, date, today) ==
    IF DateLess(today, date)
    THEN [expense |-> e, result |-> Err("InvalidDate")]
    ELSE [expense |-> [e EXCEPT !.date = date], result |-> Ok(<<>>)]

SetDescription(e, description) == [e EXCEPT !.description = description]

\* Expense::new: the caller holds the new value.
DoExpenseNew ==
    /\ Idle
    /\ \E a \in ValidatedAmounts, c \in Categories, d \in Dates, t \in Descriptions :
        /\ expense' = Some(ExpenseNew(a, c, d, t))
        /\ last' = [op |-> "new", result |-> ExpenseNew(a, c, d, t)]
        /\ UNCHANGED <<expenses, assigned, registry, files, config_path, config>>

\* Expense::new_validated: on success the caller holds the new value.
DoNewValidated ==
    /\ Idle
    /\ \E a \in ValidatedAmounts, c \in Categories, d \in Dates, t \in Descriptions,
          today \in Dates :
        LET res == NewValidated(a, c, d, t, today)
        IN  /\ expense' = IF res.ok THEN Some(res.value) ELSE expense
            /\ last' = [op |-> "new_validated", amount |-> a, category |-> c,
                        date |-> d, description |-> t, today |-> today, result |-> res]
            /\ UNCHANGED <<expenses, assigned, registry, files, config_path, config>>

DoWithCategoryName ==
    /\ Idle
    /\ \E a \in ValidatedAmounts, n \in BlankNames \cup {"Food"}, d \in Dates,
          t \in Descriptions, today \in Dates :
        LET res == WithCategoryName(a, n, None, d, t, today)
        IN  /\ expense' = IF res.ok THEN Some(res.value) ELSE expense
            /\ last' = [op |-> "with_category_name", amount |-> a, category_name |-> n,
                        date |-> d, description |-> t, today |-> today, result |-> res]
            /\ UNCHANGED <<expenses, assigned, registry, files, config_path, config>>

DoSetId ==
    /\ Idle
    /\ expense # None
    /\ \E id \in Ids :
        /\ expense' = Some(SetId(Unwrap(expense), id))
        /\ last' = [op |-> "set_id", id |-> id, before |-> Unwrap(expense)]
        /\ UNCHANGED <<expenses, assigned, registry, files, config_path, config>>

DoSetAmount ==
    /\ Idle
    /\ expense # None
    /\ \E a \in ValidatedAmounts :
        /\ expense' = Some(SetAmount(Unwrap(expense), a).expense)
        /\ last' = [op |-> "set_amount", amount |-> a, before |-> Unwrap(expense),
                    result |-> SetAmount(Unwrap(expense), a).result]
        /\ UNCHANGED <<expenses, assigned, registry, files, config_path, config>>

DoSetCategory ==
    /\ Idle
    /\ expense # None
    /\ \E c \in Categories :
        /\ expense' = Some(SetCategory(Unwrap(expense), c))
        /\ last' = [op |-> "set_category", category |-> c, before |-> Unwrap(expense)]
        /\ UNCHANGED <<expenses, assigned, registry, files, config_path, config>>

DoSetDate ==
    /\ Idle
    /\ expense # None
    /\ \E d \in Dates, today \in Dates :
        /\ expense' = Some(SetDate(Unwrap(expense), d, today).expense)
        /\ last' = [op |-> "set_date", date |-> d, today |-> today,
                    before |-> Unwrap(expense),
                    result |-> SetDate(Unwrap(expense), d, today).result]
        /\ UNCHANGED <<expenses, assigned, registry, files, config_path, config>>

DoSetDescription ==
    /\ Idle
    /\ expense # None
    /\ \E t \in Descriptions :
        /\ expense' = Some(SetDescription(Unwrap(expense), t))
        /\ last' = [op |-> "set_description", description |-> t,
                    before |-> Unwrap(expense)]
        /\ UNCHANGED <<expenses, assigned, registry, files, config_path, config>>

NextExpense ==
    \/ DoExpenseNew
    \/ DoNewValidated
    \/ DoWithCategoryName
    \/ DoSetId
    \/ DoSetAmount
    \/ DoSetCategory
    \/ DoSetDate
    \/ DoSetDescription
    \/ Return

SpecExpense == Init /\ [][NextExpense]_vars

(***************************************************************************)
(* Properties of the Expense entity.                                       *)
(***************************************************************************)
\* C17: new_validated fails with InvalidAmount for every negative amount;
\* given a date not after today it accepts zero and every positive amount,
\* and the expense it returns has no id and exactly the given amount,
\* category, date and description.
C17_NewValidatedAmount ==
    (last.op = "new_validated") =>
        /\ last.amount < 0 => last.result = Err("InvalidAmount")
        /\ (last.amount >= 0 /\ DateLeq(last.date, last.today)) =>
              /\ last.result.ok
              /\ last.result.value.id = None
              /\ last.result.value.amount = last.amount
              /\ last.result.value.category = last.category
              /\ last.result.value.date = last.date
              /\ last.result.value.description = last.description
              /\ expense = Some(last.result.value)

\* new_validated has accepted an amount of zero on today's date.
C17_Witness ==
    /\ last.op = "new_validated"
    /\ last.amount = 0
    /\ last.date = last.today
    /\ last.result.ok

\* C18: given a valid amount, new_validated fails with InvalidDate when the
\* date is strictly after today and succeeds when it is today or earlier;
\* set_date fails and succeeds on the same dates.
C18_FutureDate ==
    /\ (last.op = "new_validated" /\ last.amount >= 0) =>
          /\ DateLess(last.today, last.date) => last.result = Err("InvalidDate")
          /\ DateLeq(last.date, last.today) => last.result.ok
    /\ (last.op = "set_date") =>
          /\ DateLess(last.today, last.date) => last.result = Err("InvalidDate")
          /\ DateLeq(last.date, last.today) =>
                last.result.ok /\ Unwrap(expense).date = last.date

\* set_date has accepted today's date on an expense of another date.
C18_Witness ==
    /\ last.op = "set_date"
    /\ last.date = last.today
    /\ last.before.date # last.date
    /\ last.result.ok

\* C19: a set_amount or set_date that is rejected leaves the expense exactly
\* as it was; one that is accepted changes the targeted field and no other.
C19_NoPartialMutation ==
    /\ (last.op = "set_amount") =>
          /\ last.result.ok <=> last.amount >= 0
          /\ expense = Some(IF last.result.ok
                            THEN [last.before EXCEPT !.amount = last.amount]
                            ELSE last.before)
    /\ (last.op = "set_date") =>
          /\ last.result.ok <=> DateLeq(last.date, last.today)
          /\ expense = Some(IF last.result.ok
                            THEN [last.before EXCEPT !.date = last.date]
                            ELSE last.before)

\* set_amount has rejected a negative amount on an expense that carries an
\* id and another amount.
C19_Witness ==
    /\ last.op = "set_amount"
    /\ ~last.result.ok
    /\ last.before.id # None
    /\ last.before.amount # last.amount

(***************************************************************************)
(* The command line's date range helper.                                   *)
(***************************************************************************)
\* The day before d (NaiveDate - Duration::days(1)).
PredDay(d) ==
    IF d.day > 1 THEN Date(d.year, d.month, d.day - 1)
    ELSE IF d.month > 1 THEN Date(d.year, d.month - 1, DaysInMonth(d.year, d.month - 1))
    ELSE Date(d.year - 1, 12, 31)

\* date - Duration::days(n)
RECURSIVE SubDays(_, _)
SubDays(d, n) == IF n = 0 THEN d ELSE SubDays(PredDay(d), n - 1)

\* Faulty variant of parse_date_range: the order of the bounds is not checked.
ParseDateRangeUnordered(from, to, today) ==
    LET from_date == IF from = None THEN Ok(SubDays(today, 30))
                     ELSE ParseDate(Unwrap(from))
        to_date == IF to = None THEN Ok(today) ELSE ParseDate(Unwrap(to))
    IN  IF ~from_date.ok THEN Err("InvalidDate")
        ELSE IF ~to_date.ok THEN Err("InvalidDate")
        ELSE Ok(<<from_date.value, to_date.value>>)

\* helpers::parse_date_range, with today the date Local::now() gives.
ParseDateRange(from, to, today) ==
    LET from_date == IF from = None THEN Ok(SubDays(today, 30))
                     ELSE ParseDate(Unwrap(from))
        to_date == IF to = None THEN Ok(today) ELSE ParseDate(Unwrap(to))
    IN  IF ~from_date.ok THEN Err("InvalidDate")
        ELSE IF ~to_date.ok THEN Err("InvalidDate")
        ELSE IF DateLess(to_date.value, from_date.value) THEN Err("InvalidDate")
        ELSE Ok(<<from_date.value, to_date.value>>)

\* The dates Local::now() gives: thirty days before them lie in the previous
\* year, across the February of a leap year, and in the previous month.
Todays == {Date(2025, 1, 15), Date(2024, 3, 1), Date(2025, 2, 1)}

\* The --from and --to arguments: absent, dates around the values of today,
\* a day that is not of the calendar, and text that is no date.
RangeArguments ==
    {None}
    \cup {Some(DateToString(d)) :
            d \in {Date(2024, 1, 31), Date(2024, 12, 16), Date(2025, 1, 31),
                   Date(2025, 2, 1)}}
    \cup {Some(<<"2", "0", "2", "5", "-", "0", "2", "-", "3", "0">>),
          Some(<<"n", "o", "w">>)}

DoParseDateRange ==
    /\ Idle
    /\ \E from \in RangeArguments, to \in RangeArguments, today \in Todays :
        /\ last' = [op |-> "parse_date_range", from |-> from, to |-> to,
                    today |-> today, result |-> ParseDateRange(from, to, today)]
        /\ UNCHANGED <<expenses, assigned, registry, expense, files, config_path, config>>

NextCli ==
    \/ DoParseDateRange
    \/ Return

SpecCli == Init /\ [][NextCli]_vars

(***************************************************************************)
(* Properties of the date range helper.                                    *)
(***************************************************************************)
\* The number of the day d, counting the days of the calendar from
\* 1970-01-01.
DayNumber(d) ==
    LET y == IF d.month <= 2 THEN d.year - 1 ELSE d.year
        era == y \div 400
        yoe == y - era * 400
        mp == IF d.month > 2 THEN d.month - 3 ELSE d.month + 9
        doy == (153 * mp + 2) \div 5 + d.day - 1
        doe == yoe * 365 + yoe \div 4 - yoe \div 100 + doy
    IN  era * 146097 + doe - 719468

\* d is a date of the calendar.
ValidDate(d) ==
    /\ d.month \in 1..12
    /\ d.day \in 1..DaysInMonth(d.year, d.month)

\* C20: parse_date_range with both bounds omitted returns (today - 30 days,
\* today); an omitted bound takes its default whatever the other bound is;
\* when the resulting from is after the resulting to the call fails with
\* InvalidDate; so every pair (f, t) it returns has f <= t.
C20_ParseDateRange ==
    (last.op = "parse_date_range") =>
        LET res == last.result
            givenFrom == IF last.from = None THEN Ok(last.today)
                         ELSE ParseDate(Unwrap(last.from))
            givenTo == IF last.to = None THEN Ok(last.today)
                       ELSE ParseDate(Unwrap(last.to))
            fromNumber == IF last.from = None THEN DayNumber(last.today) - 30
                          ELSE DayNumber(givenFrom.value)
            toNumber == DayNumber(givenTo.value)
        IN  /\ (last.from = None /\ last.to = None) => res.ok
            /\ (givenFrom.ok /\ givenTo.ok) => (res.ok <=> fromNumber <= toNumber)
            /\ ~res.ok => res = Err("InvalidDate")
            /\ res.ok =>
                  /\ ValidDate(res.value[1])
                  /\ DayNumber(res.value[1]) = fromNumber
                  /\ last.from # None => res.value[1] = givenFrom.value
                  /\ res.value[2] = givenTo.value
                  /\ DateLeq(res.value[1], res.value[2])

\* With from omitted and a to that lies more than thirty days before today,
\* the call has failed.
C20_Witness ==
    /\ last.op = "parse_date_range"
    /\ last.from = None
    /\ last.to # None
    /\ ParseDate(Unwrap(last.to)).ok
    /\ ~last.result.ok

(***************************************************************************)
(* The App's read side over a database file that earlier runs, or other    *)
(* programs, have written: the four queries and list_expenses.             *)
(***************************************************************************)
\* The values of a stored row apart from its id: three rows that save wrote,
\* one of them of a five-digit year, a row whose date text names no day of
\* the calendar, and a row whose category text is empty.
StoredValues ==
    {[amount |-> 200, category |-> "Food", category_description |-> None,
      date |-> DateToString(Date(10000, 1, 1)), description |-> "Monthly rent"]} \cup
    {[amount |-> 100, category |-> "Food", category_description |-> None,
      date |-> DateToString(Date(2025, 1, 31)), description |-> "Weekly shopping"],
     [amount |-> 200, category |-> "food", category_description |-> Some("Snacks"),
      date |-> DateToString(Date(2025, 2, 1)), description |-> "Monthly rent"],
     [amount |-> 100, category |-> "Food", category_description |-> None,
      date |-> <<"2", "0", "2", "5", "-", "0", "2", "-", "0", "0">>,
      description |-> "Weekly shopping"],
     [amount |-> 200, category |-> "", category_description |-> None,
      date |-> DateToString(Date(2025, 2, 1)), description |-> "Monthly rent"]}

StoredRow(id, v) ==
    [id |-> id, amount |-> v.amount, category |-> v.category,
     category_description |-> v.category_description, date |-> v.date,
     description |-> v.description]

\* The tables a database file can hold: at most one row for each id.
StoredTables ==
    {{StoredRow(i, f[i]) : i \in DOMAIN f} :
        f \in UNION {[S -> StoredValues] : S \in SUBSET Ids}}

\* The arguments of list: the category as typed, the bounds, and the limit.
ListCategories == {None, Some("Food"), Some("food"), Some("Foods")}

ListBounds ==
    {None, Some(DateToString(Date(2025, 1, 31))), Some(<<"n", "o", "w">>)}

ListLimits == {None, Some(0), Some(1)}

\* into_iter().take(limit).collect()
Take(seq, limit) == SubSeq(seq, 1, IF limit < Len(seq) THEN limit ELSE Len(seq))

\* What list_expenses does with the result of the query it chose: a failed
\* query is returned as the error, and otherwise the expenses, cut to the
\* limit when one is given, are printed.
Listing(res, limit) ==
    IF ~res.ok THEN [result |-> Err("RepositoryError"), listed |-> <<>>]
    ELSE [result |-> Ok(<<>>),
          listed |-> IF limit = None THEN res.value ELSE Take(res.value, Unwrap(limit))]

\* Faulty variant of list_expenses: the date bounds are looked at before the
\* category.
ListExpensesBoundsFirst(table, reg, category, from, to, limit, today) ==
    IF from # None \/ to # None
    THEN LET range == ParseDateRange(from, to, today)
         IN  IF ~range.ok THEN {[result |-> Err("InvalidDate"), listed |-> <<>>]}
             ELSE {Listing(res, limit) :
                     res \in GetByDateRange(table, range.value[1], range.value[2])}
    ELSE IF category # None
    THEN IF ~CategoryExists(reg, Unwrap(category))
         THEN {[result |-> Err("CategoryNotFound"), listed |-> <<>>]}
         ELSE {Listing(res, limit) : res \in GetByCategory(table, Unwrap(category))}
    ELSE {Listing(res, limit) : res \in GetAll(table)}

\* App::list_expenses: the possible outcomes, each the value returned and
\* the expenses printed.
ListExpenses(table, reg, category, from, to, limit, today) ==
    IF category # None
    THEN IF ~CategoryExists(reg, Unwrap(category))
         THEN {[result |-> Err("CategoryNotFound"), listed |-> <<>>]}
         ELSE {Listing(res, limit) : res \in GetByCategory(table, Unwrap(category))}
    ELSE IF from # None \/ to # None
    THEN LET range == ParseDateRange(from, to, today)
         IN  IF ~range.ok THEN {[result |-> Err("InvalidDate"), listed |-> <<>>]}
             ELSE {Listing(res, limit) :
                     res \in GetByDateRange(table, range.value[1], range.value[2])}
    ELSE {Listing(res, limit) : res \in GetAll(table)}

\* The App started on the default configuration over a database file that
\* already holds rows.
InitStore ==
    /\ expenses \in StoredTables
    /\ assigned = RowIds(expenses)
    /\ last = [op |-> "none"]
    /\ registry = AppNew(ConfigDefault)
    /\ expense = None
    /\ files = [p \in Paths |-> None]
    /\ config_path = "expense_log.yaml"
    /\ config = ConfigDefault

DoListExpenses ==
    /\ Idle
    /\ \E category \in ListCategories, from \in ListBounds, to \in ListBounds,
          limit \in ListLimits, today \in Todays :
        \E out \in ListExpenses(expenses, registry, category, from, to, limit, today) :
            /\ last' = [op |-> "list_expenses", category |-> category, from |-> from,
                        to |-> to, limit |-> limit, today |-> today,
                        result |-> out.result, listed |-> out.listed]
            /\ UNCHANGED <<expenses, assigned, registry, expense, files, config_path,
                           config>>

NextStore ==
    \/ DoGetById
    \/ DoGetAll
    \/ DoGetByCategory
    \/ DoGetByDateRange
    \/ DoListExpenses
    \/ Return

SpecStore == InitStore /\ [][NextStore]_vars

(***************************************************************************)
(* Properties of the read side.                                            *)
(***************************************************************************)
\* The row's date text is no date of the form YYYY-MM-DD, or its category
\* text is no valid category name.
Corrupt(r) == ~ParseDate(r.date).ok \/ r.category \in BlankNames

\* The rows the query that has just returned selects.
Selected ==
    IF last.op = "get_by_id" THEN {r \in expenses : r.id = last.id}
    ELSE IF last.op = "get_all" THEN expenses
    ELSE IF last.op = "get_by_category"
         THEN {r \in expenses : r.category = last.category_name}
    ELSE IF last.op = "get_by_date_range"
         THEN {r \in expenses : DateBetween(r, last.start, last.end)}
    ELSE {}

\* C24: corrupt rows are reported, not skipped.  When a row that get_by_id,
\* get_all, get_by_category or get_by_date_range selects has a date text
\* that does not parse or a category text that is no valid category, the
\* query returns the storage error; otherwise it returns every selected row.
C24_CorruptRowsReported ==
    (last.op \in {"get_by_id", "get_all", "get_by_category", "get_by_date_range"}) =>
        IF \E r \in Selected : Corrupt(r)
        THEN last.result = Err("DatabaseError")
        ELSE /\ last.result.ok
             /\ last.op = "get_by_id" =>
                   Cardinality(last.result.value) = Cardinality(Selected)
             /\ last.op # "get_by_id" => Len(last.result.value) = Cardinality(Selected)

\* get_by_date_range has returned the storage error over a table that holds
\* a valid row in the range and a row in the range whose date text does not
\* parse.
C24_Witness ==
    /\ last.op = "get_by_date_range"
    /\ ~last.result.ok
    /\ \E r \in Selected : ~Corrupt(r)
    /\ \E r \in Selected : ~ParseDate(r.date).ok

\* The first n entries of seq, or all of it when it has fewer.
FirstN(seq, n) == [i \in 1..(IF n < Len(seq) THEN n ELSE Len(seq)) |-> seq[i]]

\* The listing that has just returned is what list_expenses makes of the
\* query result res: the error of a failed query, or the expenses of the
\* result, the first n of them when a limit n is given.
ListedFrom(res) ==
    IF ~res.ok THEN ~last.result.ok /\ last.listed = <<>>
    ELSE /\ last.result.ok
         /\ last.listed = IF last.limit = None THEN res.value
                          ELSE FirstN(res.value, Unwrap(last.limit))

\* C30: list_expenses applies exactly one filter, chosen by precedence.  With
\* a category given, the category must exist in the registry, else the call
\* fails with CategoryNotFound and lists nothing, and the listing comes from
\* get_by_category for the name as typed, whatever from and to are; with no
\* category and from or to given, it comes from get_by_date_range over the
\* parsed range; otherwise from get_all.  With a limit n the listing is the
\* first n entries of that result.
C30_ListExpenses ==
    (last.op = "list_expenses") =>
        IF last.category # None
        THEN IF ~\E c \in AllCategories(registry) :
                    SameIgnoringCase(c.name, Unwrap(last.category))
             THEN last.result = Err("CategoryNotFound") /\ last.listed = <<>>
             ELSE \E res \in GetByCategory(expenses, Unwrap(last.category)) :
                     ListedFrom(res)
        ELSE IF last.from # None \/ last.to # None
        THEN LET range == ParseDateRange(last.from, last.to, last.today)
             IN  IF ~range.ok THEN last.result = Err("InvalidDate") /\ last.listed = <<>>
                 ELSE \E res \in GetByDateRange(expenses, range.value[1], range.value[2]) :
                         ListedFrom(res)
        ELSE \E res \in GetAll(expenses) : ListedFrom(res)

\* A listing by category with a limit of one and bounds that do not parse
\* has printed one of the two stored expenses of that category.
C30_Witness ==
    /\ last.op = "list_expenses"
    /\ last.category = Some("Food")
    /\ last.from # None /\ ~ParseDate(Unwrap(last.from)).ok
    /\ last.limit = Some(1)
    /\ last.result.ok
    /\ Len(last.listed) = 1
    /\ Cardinality({r \in expenses : r.category = "Food"}) = 2

(***************************************************************************)
(* The application layer: main, App::add_expense, App::manage_categories.  *)
(***************************************************************************)
\* helpers::validate_amount
ValidateAmount(amount) == IF amount < 0 THEN Err("InvalidAmount") ELSE Ok(<<>>)

\* helpers::validate_category
ValidateCategory(category_name, reg) ==
    IF ~CategoryExists(reg, category_name) THEN Err("CategoryNotFound") ELSE Ok(<<>>)

\* helpers::parse_date: today without a text, and otherwise the text parsed
\* with "%Y-%m-%d".
HelpersParseDate(date_str, today) ==
    IF date_str = None THEN Ok(today)
    ELSE LET parsed == ParseDate(Unwrap(date_str))
         IN  IF parsed.ok THEN parsed ELSE Err("InvalidDate")

\* format!("Expense in {}", category) for the names add is given.
ExpenseIn ==
    "Food" :> "Expense in Food" @@
    "food" :> "Expense in food" @@
    "Books" :> "Expense in Books"

\* helpers::default_description
DefaultDescription(description, category) ==
    IF description = None THEN ExpenseIn[category] ELSE Unwrap(description)

\* Faulty variant of add_expense: the amount is not validated.
AddExpenseAnyAmount(table, reg, amount, category, date, description, today) ==
    IF ~ValidateCategory(category, reg).ok
    THEN {[expenses |-> table, result |-> Err("CategoryNotFound")]}
    ELSE LET parsed == HelpersParseDate(date, today)
         IN  IF ~parsed.ok THEN {[expenses |-> table, result |-> Err("InvalidDate")]}
             ELSE {IF found = None
                   THEN [expenses |-> table, result |-> Err("Other")]
                   ELSE [expenses |->
                            InsertRow(table,
                                ExpenseNew(amount, Unwrap(found), parsed.value,
                                           DefaultDescription(description, category))),
                         result |-> Ok(<<>>)] :
                   found \in GetCategory(reg, category)}

\* Faulty variant of add_expense: the category is built from the name typed.
AddExpenseTypedCategory(table, reg, amount, category, date, description, today) ==
    IF ~ValidateAmount(amount).ok
    THEN {[expenses |-> table, result |-> Err("InvalidAmount")]}
    ELSE IF ~ValidateCategory(category, reg).ok
    THEN {[expenses |-> table, result |-> Err("CategoryNotFound")]}
    ELSE LET parsed == HelpersParseDate(date, today)
         IN  IF ~parsed.ok THEN {[expenses |-> table, result |-> Err("InvalidDate")]}
             ELSE {[expenses |->
                       InsertRow(table,
                           ExpenseNew(amount, Category(category, None), parsed.value,
                                      DefaultDescription(description, category))),
                    result |-> Ok(<<>>)]}

\* Faulty variant of add_expense: the expense is built by new_validated.
AddExpenseValidated(table, reg, amount, category, date, description, today) ==
    IF ~ValidateAmount(amount).ok
    THEN {[expenses |-> table, result |-> Err("InvalidAmount")]}
    ELSE IF ~ValidateCategory(category, reg).ok
    THEN {[expenses |-> table, result |-> Err("CategoryNotFound")]}
    ELSE LET parsed == HelpersParseDate(date, today)
         IN  IF ~parsed.ok THEN {[expenses |-> table, result |-> Err("InvalidDate")]}
             ELSE {IF found = None
                   THEN [expenses |-> table, result |-> Err("Other")]
                   ELSE LET built == NewValidated(amount, Unwrap(found), parsed.value,
                                         DefaultDescription(description, category),
                                         today)
                        IN  IF ~built.ok
                            THEN [expenses |-> table, result |-> Err("Validation")]
                            ELSE [expenses |-> InsertRow(table, built.value),
                                  result |-> Ok(<<>>)] :
                   found \in GetCategory(reg, category)}

\* App::add_expense: the possible outcomes, each the table afterwards and
\* the value returned.  The amount, the category and the date are checked
\* in this order; then the registry's entry for the name is cloned into an
\* expense built by Expense::new, and the expense is saved.
AddExpense(table, reg, amount, category, date, description, today) ==
    IF ~ValidateAmount(amount).ok
    THEN {[expenses |-> table, result |-> Err("InvalidAmount")]}
    ELSE IF ~ValidateCategory(category, reg).ok
    THEN {[expenses |-> table, result |-> Err("CategoryNotFound")]}
    ELSE LET parsed == HelpersParseDate(date, today)
         IN  IF ~parsed.ok THEN {[expenses |-> table, result |-> Err("InvalidDate")]}
             ELSE {IF found = None
                   THEN [expenses |-> table, result |-> Err("Other")]
                   ELSE [expenses |->
                            InsertRow(table,
                                ExpenseNew(amount, Unwrap(found), parsed.value,
                                           DefaultDescription(description, category))),
                         result |-> Ok(<<>>)] :
                   found \in GetCategory(reg, category)}

\* char::is_whitespace on the characters a line of input is made of.
Whitespace == {" ", "\n"}

RECURSIVE TrimStart(_)
TrimStart(s) == IF s # <<>> /\ Head(s) \in Whitespace THEN TrimStart(Tail(s)) ELSE s

RECURSIVE TrimEnd(_)
TrimEnd(s) ==
    IF s # <<>> /\ s[Len(s)] \in Whitespace THEN TrimEnd(SubSeq(s, 1, Len(s) - 1)) ELSE s

\* str::trim
Trim(s) == TrimEnd(TrimStart(s))

\* input.trim().eq_ignore_ascii_case("y")
Confirms(input) ==
    LET answer == Trim(input)
    IN  Len(answer) = 1 /\ ToAsciiLowercase(answer[1]) = ToAsciiLowercase("y")

\* update_config_categories: the Config's categories become the registry's
\* entries, and the Config is saved to "expense_log.yaml".
UpdateConfigCategories(cfg, fs, reg) ==
    LET updated == [cfg EXCEPT !.categories =
                       {Category(c.name, c.description) : c \in AllCategories(reg)}]
    IN  [config |-> updated, files |-> ConfigSave(fs, "expense_log.yaml", updated)]

\* What a category command leaves behind and returns.
Outcome(table, reg, cfg, fs, result, prompted) ==
    [expenses |-> table, registry |-> reg, config |-> cfg, files |-> fs,
     result |-> result, prompted |-> prompted]

\* CategoryCommands::List
ManageCategoriesList(table, reg, cfg, fs) ==
    {Outcome(table, reg, cfg, fs, Ok(<<>>), FALSE)}

\* CategoryCommands::Add
ManageCategoriesAdd(table, reg, cfg, fs, name, description) ==
    {IF added.result.ok
     THEN LET saved == UpdateConfigCategories(cfg, fs, added.registry)
          IN  Outcome(table, added.registry, saved.config, saved.files, Ok(<<>>), FALSE)
     ELSE Outcome(table, reg, cfg, fs, Err("Other"), FALSE) :
     added \in AddCustomCategory(reg, name, description)}

\* Faulty variant of Remove: the expenses of the category are deleted with it.
ManageCategoriesRemoveCascade(table, reg, cfg, fs, name, input) ==
    {LET prompted == found.ok /\ found.value # <<>>
     IN  IF prompted /\ ~Confirms(input)
         THEN Outcome(table, reg, cfg, fs, Ok(<<>>), TRUE)
         ELSE LET removed == RemoveCategory(reg, name)
              IN  IF removed.result.ok
                  THEN LET saved == UpdateConfigCategories(cfg, fs, removed.registry)
                       IN  Outcome({r \in table : r.category # name}, removed.registry,
                                   saved.config, saved.files, Ok(<<>>), prompted)
                  ELSE Outcome(table, reg, cfg, fs, Err("Other"), prompted) :
     found \in GetByCategory(table, name)}

\* CategoryCommands::Remove: when get_by_category(name) returns expenses, the
\* user is asked and anything but "y" cancels; then the registry removes the
\* category and the configuration is saved.
ManageCategoriesRemove(table, reg, cfg, fs, name, input) ==
    {LET prompted == found.ok /\ found.value # <<>>
     IN  IF prompted /\ ~Confirms(input)
         THEN Outcome(table, reg, cfg, fs, Ok(<<>>), TRUE)
         ELSE LET removed == RemoveCategory(reg, name)
              IN  IF removed.result.ok
                  THEN LET saved == UpdateConfigCategories(cfg, fs, removed.registry)
                       IN  Outcome(table, removed.registry, saved.config, saved.files,
                                   Ok(<<>>), prompted)
                  ELSE Outcome(table, reg, cfg, fs, Err("Other"), prompted) :
     found \in GetByCategory(table, name)}

\* The arguments of add.
AddAmounts == {-50, 100}
AddCategories == {"Food", "food", "Books"}
AddDates == {None, Some(DateToString(Date(2025, 2, 1))), Some(<<"n", "o", "w">>)}
AddDescriptions == {None, Some("Weekly shopping")}

\* The day the commands run on.
AppToday == Date(2025, 1, 15)

\* The arguments of category add and category remove, and the lines the
\* user types at the prompt.
AddNames == {"Books", "food"}
AddNameDescriptions == {Some("Novels")}
RemoveNames == {"Food", "food", "Books"}
Answers == {<<"y", "\n">>, <<" ", "Y", "\n">>, <<"n", "\n">>, <<"\n">>}

\* The rows the application's table is let grow to.
MaxRows == 1

\* A configuration file written earlier: the defaults with two categories.
FileConfig ==
    [ConfigDefault EXCEPT !.categories =
        {Category("Food", Some("Groceries")), Category("Housing", None)}]

\* main up to App::new, for some --config: the App holds the Config loaded
\* from the path and a registry configured from it; the database is empty,
\* no file is at the default path, and other.yaml holds FileConfig.
InitApp ==
    /\ expenses = {}
    /\ assigned = {}
    /\ last = [op |-> "none"]
    /\ expense = None
    /\ files = [p \in Paths |-> IF p = "other.yaml" THEN Some(FileConfig) ELSE None]
    /\ config_path \in Paths
    /\ config = ConfigLoad(files, config_path)
    /\ registry = AppNew(config)

\* A later start of the program: main up to App::new over the same database.
Start ==
    /\ Idle
    /\ \E path \in Paths :
        /\ config_path' = path
        /\ config' = ConfigLoad(files, path)
        /\ registry' = AppNew(ConfigLoad(files, path))
        /\ last' = [op |-> "start", path |-> path]
        /\ UNCHANGED <<expenses, assigned, expense, files>>

DoAddExpense ==
    /\ Idle
    /\ \E amount \in AddAmounts, category \in AddCategories, date \in AddDates,
          description \in AddDescriptions :
        \E out \in AddExpense(expenses, registry, amount, category, date, description,
                              AppToday) :
            /\ out.expenses # expenses => NextRowid(expenses) <= MaxRows
            /\ expenses' = out.expenses
            /\ assigned' = assigned \cup RowIds(out.expenses)
            /\ last' = [op |-> "add_expense", amount |-> amount, category |-> category,
                        date |-> date, description |-> description,
                        result |-> out.result]
            /\ UNCHANGED <<registry, expense, files, config_path, config>>

\* The state a category command leaves, and what it records.
Commanded(out, command, name, input) ==
    /\ expenses' = out.expenses
    /\ registry' = out.registry
    /\ config' = out.config
    /\ files' = out.files
    /\ last' = [op |-> "manage_categories", command |-> command, name |-> name,
                input |-> input, prompted |-> out.prompted, result |-> out.result]
    /\ UNCHANGED <<assigned, expense, config_path>>

DoManageCategories ==
    /\ Idle
    /\ \/ \E out \in ManageCategoriesList(expenses, registry, config, files) :
            Commanded(out, "List", "", <<>>)
       \/ \E name \in AddNames, description \in AddNameDescriptions :
            \E out \in ManageCategoriesAdd(expenses, registry, config, files, name,
                                           description) :
                Commanded(out, "Add", name, <<>>)
       \/ \E name \in RemoveNames, input \in Answers :
            \E out \in ManageCategoriesRemove(expenses, registry, config, files, name,
                                              input) :
                Commanded(out, "Remove", name, input)

NextApp ==
    \/ Start
    \/ DoAddExpense
    \/ DoManageCategories
    \/ Return

SpecApp == InitApp /\ [][NextApp]_vars

(***************************************************************************)
(* Claims about the application layer.                                     *)
(***************************************************************************)
\* C21: seeding the registry from the configuration makes the registry hold
\* exactly the configured categories.  After a start, every configured name
\* exists in the registry, every configured category is an entry of
\* all_categories() with its configured description, and all_categories()
\* has as many entries as the configuration lists.
C21_SeededExactly ==
    (last.op = "start") =>
        /\ \A c \in config.categories :
              \E e \in AllCategories(registry) : SameIgnoringCase(e.name, c.name)
        /\ \A c \in config.categories :
              \E e \in AllCategories(registry) :
                  e.name = c.name /\ e.description = c.description
        /\ Cardinality(AllCategories(registry)) = Cardinality(config.categories)

\* The expense the queries hand back for the stored row r: the row's values,
\* with the category made of the row's category name and description.
ExpenseOfRow(r) ==
    [id |-> Some(r.id), amount |-> r.amount,
     category |-> [name |-> r.category, description |-> r.category_description],
     date |-> ParseStoredDate(r.date).value, description |-> r.description]

\* Row r of the table is returned by get_by_id for its id, and by get_all
\* and by get_by_category for its stored category name.
Retrievable(table, r) ==
    LET e == ExpenseOfRow(r)
    IN  /\ GetById(table, r.id) = Ok(Some(e))
        /\ \A res \in GetAll(table) :
              res.ok /\ \E i \in 1..Len(res.value) : res.value[i] = e
        /\ \A res \in GetByCategory(table, r.category) :
              res.ok /\ \E i \in 1..Len(res.value) : res.value[i] = e

\* C22: expenses embed their category by value.  A category command (list,
\* add, remove, also the removal of a category that stored expenses use)
\* leaves every stored row as it was, and afterwards every stored row is
\* still returned, with its stored category name and description, by
\* get_by_id, get_all and get_by_category under its stored name.
C22_EmbeddedByValue ==
    [][(last'.op = "manage_categories") =>
          /\ expenses' = expenses
          /\ \A r \in expenses' : Retrievable(expenses', r)]_vars

\* A confirmed removal has taken from the registry the category that a
\* stored expense carries.
C22_Witness ==
    /\ last.op = "manage_categories"
    /\ last.command = "Remove"
    /\ last.prompted
    /\ last.result.ok
    /\ \E r \in expenses :
          /\ r.category = last.name
          /\ r.category_description # None
          /\ ~CategoryExists(registry, r.category)

\* The add that has just returned was given an amount below zero, a name
\* that no entry of the registry has ignoring case, or a date text that is
\* not a date.
InvalidAdd(add, reg) ==
    \/ add.amount < 0
    \/ ~\E c \in AllCategories(reg) : SameIgnoringCase(c.name, add.category)
    \/ add.date # None /\ ~ParseDate(Unwrap(add.date)).ok

\* C23: validation happens before the store is touched.  add_expense with a
\* negative amount, a category name that is not in the registry, or a date
\* text that does not parse returns an error and leaves the table as it was;
\* every row an add inserts has an amount of at least zero and the name of a
\* category that is in the registry at the time of the add.
C23_ValidatedBeforeStore ==
    [][(last'.op = "add_expense") =>
          /\ InvalidAdd(last', registry) => ~last'.result.ok /\ expenses' = expenses
          /\ ~last'.result.ok => expenses' = expenses
          /\ \A r \in expenses' \ expenses :
                /\ r.amount >= 0
                /\ \E c \in AllCategories(registry) : c.name = r.category]_vars

\* An add with a negative amount, an existing category and a date that
\* parses has returned InvalidAmount over a table that holds a row.
C23_Witness ==
    /\ last.op = "add_expense"
    /\ last.amount < 0
    /\ last.category = "food"
    /\ last.date = Some(DateToString(Date(2025, 2, 1)))
    /\ last.result = Err("InvalidAmount")
    /\ CategoryExists(registry, last.category)
    /\ expenses # {}

\* C28: add_expense stores the registry's category snapshot, not the user's
\* text.  The row a successful add inserts carries the name and the
\* description of a registry entry that matches the typed name ignoring
\* case, whatever casing was typed; its description is the one given, or
\* without one the text "Expense in " followed by the name as typed.
C28_RegistrySnapshot ==
    [][(last'.op = "add_expense" /\ last'.result.ok) =>
          /\ Cardinality(expenses' \ expenses) = 1
          /\ \A r \in expenses' \ expenses :
                /\ \E c \in AllCategories(registry) :
                      /\ SameIgnoringCase(c.name, last'.category)
                      /\ r.category = c.name
                      /\ r.category_description = c.description
                /\ r.description = IF last'.description = None
                                   THEN ExpenseIn[last'.category]
                                   ELSE Unwrap(last'.description)]_vars

\* An add for "food" without a description has inserted a row of category
\* "Food" with the registry's description and the text "Expense in food".
C28_Witness ==
    /\ last.op = "add_expense"
    /\ last.category = "food"
    /\ last.description = None
    /\ last.result.ok
    /\ \E r \in expenses :
          /\ r.category = "Food"
          /\ r.category_description = Some("Groceries, restaurants, takeout, etc.")
          /\ r.description = "Expense in food"

\* C29: the future-date rule is not applied on the add path.  add_expense
\* with an amount of at least zero, a category of the registry and a date
\* text that parses, a date strictly after today included, returns success
\* and has inserted a row of that date; without a date text the row has
\* today's date.
C29_FutureDateAccepted ==
    [][(/\ last'.op = "add_expense"
        /\ last'.amount >= 0
        /\ \E c \in AllCategories(registry) : SameIgnoringCase(c.name, last'.category)
        /\ last'.date # None => ParseDate(Unwrap(last'.date)).ok) =>
          /\ last'.result.ok
          /\ \E r \in expenses' \ expenses :
                r.date = IF last'.date = None THEN DateToString(AppToday)
                         ELSE DateToString(ParseDate(Unwrap(last'.date)).value)]_vars

\* An add has returned success and the table holds a row dated after today.
C29_Witness ==
    /\ last.op = "add_expense"
    /\ last.date # None
    /\ last.result.ok
    /\ \E r \in expenses :
          /\ r.date = Unwrap(last.date)
          /\ DayNumber(ParseDate(r.date).value) > DayNumber(AppToday)

\* The names of the categories a registry holds.
CategoryNames(reg) == {c.name : c \in AllCategories(reg)}

\* The category command that has just returned was a remove that the user
\* did not confirm.
Cancelled(cmd) == cmd.command = "Remove" /\ cmd.prompted /\ ~Confirms(cmd.input)

\* C25: registry changes are persisted.  After a successful category add or
\* remove, a start that loads the configuration path the application was
\* started with gets a registry with the same categories; a failed add or
\* remove and a cancelled remove leave the configuration files as they were.
C25_ChangesPersisted ==
    [][(last'.op = "manage_categories" /\ last'.command \in {"Add", "Remove"}) =>
          IF last'.result.ok /\ ~Cancelled(last')
          THEN CategoryNames(AppNew(ConfigLoad(files', config_path')))
                  = CategoryNames(registry')
          ELSE files' = files]_vars

\* Some stored expense uses a category of the registry that the name
\* identifies ignoring case.
UsedCategory(table, reg, name) ==
    \E c \in AllCategories(reg) :
        /\ SameIgnoringCase(c.name, name)
        /\ \E r \in table : r.category = c.name

\* C26: category removal is guarded by confirmation.  When Remove names, in
\* any casing, a category of the registry that a stored expense uses, the
\* user is asked; unless the answer is "y" ignoring case, the command
\* returns success and leaves the registry and the configuration as they
\* were.
C26_RemovalConfirmed ==
    [][(/\ last'.op = "manage_categories"
        /\ last'.command = "Remove"
        /\ UsedCategory(expenses, registry, last'.name)) =>
          /\ last'.prompted
          /\ ~Confirms(last'.input) =>
                /\ last'.result.ok
                /\ registry' = registry
                /\ config' = config
                /\ files' = files]_vars

====
